---- MODULE Spec2Model ----
(***************************************************************************)
(* Model of src/n8n-streamlit-agent-basic-auth-dash.py: one Streamlit      *)
(* session running main() again and again.  A page run builds a Dashboard  *)
(* (one table-store query), renders the metrics and the charts, then       *)
(* serves the chat: the session state (messages, session_id) is the only   *)
(* state that survives a run.                                              *)
(*                                                                         *)
(* Encodings.  A text value is a record [kind, code, text]: kind "text"    *)
(* is a literal string, kind "error" is the f-string                       *)
(* "Error: {code} - {text}".  A calendar date is [y, m, d]; NaT is the     *)
(* missing date.  A month key "YYYY-MM" is the number y*100+m, which       *)
(* orders as the string does; the string "NaT" orders after every digit    *)
(* string and is the number NaTKey.  None (a missing name) is the string   *)
(* "None".  The sorts are pandas' (sort_values, also inside value_counts):  *)
(* nargsort sorts ascending and, for ascending=False, sorts the reversed    *)
(* array and reverses the result.  The ascending sort is modelled as one    *)
(* that keeps equal keys in their order, which is what that reversal is     *)
(* written for; the order of equal keys is the library's, not this file's.  *)
(***************************************************************************)
EXTENDS Integers, Sequences, FiniteSets, TLC

VARIABLES
    pc,            \* position of the current page run in main()
    runs,          \* page runs started so far in this session
    end_date,      \* load_data_from_supabase: datetime.now(), a day number
    start_date,    \* load_data_from_supabase: end_date - 30 days
    response,      \* response.data of this run's table-store query
    df,            \* Dashboard.df of this run: [columns, rows]
    metrics,       \* what display_metrics rendered in this run
    charts,        \* what display_charts computed in this run
    has_messages,  \* "messages" in st.session_state
    messages,      \* st.session_state.messages
    has_session_id,\* "session_id" in st.session_state
    session_id,    \* st.session_state.session_id
    user_input,    \* value of st.chat_input in this run
    error,         \* exception that ended this run, "" when none
    queries,       \* table-store queries executed in this run
    posts,         \* webhook POSTs made in this run
    post,          \* what requests.post did in this run
    generated,     \* calls of generate_session_id in this session
    calls          \* payloads POSTed to the webhook in this session

vars == <<pc, runs, end_date, start_date, response, df, metrics, charts,
          has_messages, messages, has_session_id, session_id, user_input,
          error, queries, posts, post, generated, calls>>

----------------------------------------------------------------------------
(* Bounds *)

MaxRuns == 3

MaxRows == 2

MaxMonths == 15

----------------------------------------------------------------------------
(* Program constants *)

HeadLimit == 10

TailLimit == 12

DaysBack == 30

StatusOK == 200

NaTKey == 999999

None == "None"

NaT == [y |-> 0, m |-> 0, d |-> 0]

----------------------------------------------------------------------------
(* Generic sequence helpers *)

Min(a, b) == IF a < b THEN a ELSE b

Range(s) == {s[i] : i \in 1..Len(s)}

Reverse(s) == [i \in 1..Len(s) |-> s[Len(s) + 1 - i]]

\* Insert x into the ascending sequence s of [k, v] entries after every
\* entry whose key k is not greater than x's: the step of a stable insertion
\* sort.
RECURSIVE InsertStable(_, _)
InsertStable(x, s) ==
    IF s = <<>> THEN <<x>>
    ELSE IF x.k < s[1].k THEN <<x>> \o s
    ELSE <<s[1]>> \o InsertStable(x, Tail(s))

\* argsort, ascending, equal keys kept in their order.
RECURSIVE StableSortAsc(_)
StableSortAsc(s) ==
    IF s = <<>> THEN <<>>
    ELSE InsertStable(s[Len(s)], StableSortAsc(SubSeq(s, 1, Len(s) - 1)))

SortDescTiesReversed(s) == Reverse(StableSortAsc(s))

\* pandas nargsort with ascending=False: sort the reversed array ascending,
\* then reverse the result, so that equal keys keep their order.
SortDesc(s) == Reverse(StableSortAsc(Reverse(s)))

\* The distinct values of s other than None, in order of first appearance
\* (the hash table value_counts builds, dropna=True).
RECURSIVE Uniques(_)
Uniques(s) ==
    IF s = <<>> THEN <<>>
    ELSE LET init == SubSeq(s, 1, Len(s) - 1)
             last == s[Len(s)]
         IN  IF last = None \/ last \in Range(init) THEN Uniques(init)
             ELSE Uniques(init) \o <<last>>

CountOf(v, s) == Cardinality({i \in 1..Len(s) : s[i] = v})

\* Series.value_counts(): [k |-> count, v |-> value] per distinct value,
\* descending by count.
ValueCounts(s) ==
    LET u == Uniques(s)
    IN  SortDesc([i \in 1..Len(u) |-> [k |-> CountOf(u[i], s), v |-> u[i]]])

\* Series.head(n)
HeadN(s, n) == SubSeq(s, 1, Min(n, Len(s)))

TailFromFront(s, n) == SubSeq(s, 1, Min(n, Len(s)))

\* DataFrame.tail(n)
TailN(s, n) == SubSeq(s, Len(s) - Min(n, Len(s)) + 1, Len(s))

\* line 100 / line 111: value_counts().head(limit)
TopCategories(s, limit) == HeadN(ValueCounts(s), limit)

----------------------------------------------------------------------------
(* Dashboard: the frame and its aggregations *)

\* Columns of the frame returned for an empty result (lines 50-55) and of the
\* frame selected at line 62.
EmptyColumns == {"Date", "Queries", "Response_Time", "Satisfaction"}

DataColumns == {"Date", "doc_id", "company_name", "decision", "product",
                "LB_complaint_case", "decision_date"}

\* Lines 58-62: one frame row per record, Date parsed from created_at.  The
\* columns decision and LB_complaint_case are selected too; nothing reads them.
FrameRow(r) ==
    [Date |-> r.created_at, doc_id |-> r.doc_id, company_name |-> r.company_name,
     product |-> r.product, decision_date |-> r.decision_date]

\* Line 47: select('*') on the whole table; start_date and end_date take no
\* part in the query.
QueryFilter(data, start, end) == data

\* Line 65: sort_values('Date', ascending=False)
SortByDate(rows) ==
    LET keyed == [i \in 1..Len(rows) |-> [k |-> rows[i].Date, v |-> rows[i]]]
        sorted == SortDesc(keyed)
    IN  [i \in 1..Len(rows) |-> sorted[i].v]

\* Lines 48-67: load_data_from_supabase after the query returned data.
LoadFrame(data) ==
    IF Len(data) = 0
    THEN [columns |-> EmptyColumns, rows |-> <<>>]
    ELSE [columns |-> DataColumns,
          rows |-> SortByDate([i \in 1..Len(data) |-> FrameRow(data[i])])]

Column(rows, name) ==
    [i \in 1..Len(rows) |->
        CASE name = "company_name" -> rows[i].company_name
          [] name = "product" -> rows[i].product
          [] OTHER -> None]

MaxOf(S) == CHOOSE x \in S : \A y \in S : y <= x

NoMetrics == [total_docs |-> -1, unique_companies |-> -1, latest_date |-> -1]

\* Lines 71-73.  raised is the exception of the first failing line, "" if none.
Metrics(frame) ==
    IF "company_name" \notin frame.columns
    THEN [raised |-> "KeyError", shown |-> NoMetrics]
    ELSE IF frame.rows = <<>>
    THEN [raised |-> "AttributeError", shown |-> NoMetrics]
    ELSE [raised |-> "",
          shown |-> [total_docs |-> Len(frame.rows),
                     unique_companies |->
                         Cardinality(Range(Column(frame.rows, "company_name")) \ {None}),
                     latest_date |-> MaxOf({frame.rows[i].Date : i \in 1..Len(frame.rows)})]]

\* Line 123: to_datetime(decision_date).dt.to_period('M').astype(str)
Month(date) == IF date = NaT THEN NaTKey ELSE date.y * 100 + date.m

MonthColumn(rows) == [i \in 1..Len(rows) |-> Month(rows[i].decision_date)]

RECURSIVE UniqueKeys(_)
UniqueKeys(s) ==
    IF s = <<>> THEN <<>>
    ELSE LET init == SubSeq(s, 1, Len(s) - 1)
         IN  IF s[Len(s)] \in Range(init) THEN UniqueKeys(init)
             ELSE UniqueKeys(init) \o <<s[Len(s)]>>

\* sort_index(): ascending by key
SortIndex(table) ==
    LET keyed == [i \in 1..Len(table) |-> [k |-> table[i].Month, v |-> table[i]]]
        sorted == StableSortAsc(keyed)
    IN  [i \in 1..Len(table) |-> sorted[i].v]

\* Line 133: pd.crosstab(Month, company_name).  The rows whose company name is
\* missing are dropped (dropna) before the pairs are counted; one table row
\* per remaining month, one cell per remaining company.
Crosstab(rows) ==
    LET kept == SelectSeq(rows, LAMBDA r : r.company_name # None)
        cols == {kept[i].company_name : i \in 1..Len(kept)}
        keys == UniqueKeys(MonthColumn(kept))
    IN  [j \in 1..Len(keys) |->
            [Month |-> keys[j],
             cells |-> [c \in cols |->
                 Cardinality({i \in 1..Len(kept) :
                     Month(kept[i].decision_date) = keys[j] /\ kept[i].company_name = c})]]]

\* Line 149: df_monthly['Month'].value_counts().sort_index()
MonthlyTotal(rows) ==
    LET col == MonthColumn(rows)
        keys == UniqueKeys(col)
    IN  SortIndex([j \in 1..Len(keys) |-> [Month |-> keys[j], count |-> CountOf(keys[j], col)]])

NoCharts == [docs_by_company |-> <<>>, docs_by_product |-> <<>>,
             monthly_company |-> <<>>, last_12_months |-> <<>>, monthly_total |-> <<>>]

\* Lines 100-149: everything display_charts computes from self.df.
Charts(frame) ==
    LET monthly_company == SortIndex(Crosstab(frame.rows))
    IN  [docs_by_company |-> TopCategories(Column(frame.rows, "company_name"), HeadLimit),
         docs_by_product |-> TopCategories(Column(frame.rows, "product"), HeadLimit),
         monthly_company |-> monthly_company,
         last_12_months |-> TailN(monthly_company, TailLimit),
         monthly_total |-> MonthlyTotal(frame.rows)]

----------------------------------------------------------------------------
(* Chat webhook *)

Text(s) == [kind |-> "text", code |-> 0, text |-> s]

\* f"Error: {response.status_code} - {response.text}"
ErrorString(code, body) == [kind |-> "error", code |-> code, text |-> body]

NoText == Text("")

\* What requests.post can do: raise, or return a response.  A body is JSON
\* or not, and a JSON body has an 'output' field or not.
PostOutcomes ==
    { [raised |-> "ConnectionError", status |-> 0, json |-> FALSE,
       has_output |-> FALSE, output |-> "", text |-> ""],
      [raised |-> "", status |-> StatusOK, json |-> TRUE,
       has_output |-> TRUE, output |-> "answer", text |-> "{output: answer}"],
      [raised |-> "", status |-> StatusOK, json |-> TRUE,
       has_output |-> FALSE, output |-> "", text |-> "{message: started}"],
      [raised |-> "", status |-> StatusOK, json |-> FALSE,
       has_output |-> FALSE, output |-> "", text |-> "<html>"],
      [raised |-> "", status |-> 500, json |-> TRUE,
       has_output |-> TRUE, output |-> "answer", text |-> "{output: answer}"],
      [raised |-> "", status |-> 502, json |-> FALSE,
       has_output |-> FALSE, output |-> "", text |-> "Bad Gateway"] }

\* Lines 29-34: the result of send_message_to_llm given what the POST did:
\* the exception that leaves the function ("" if none) and the value returned.
SendMessageToLlm(reply) ==
    IF reply.raised # "" THEN [raised |-> reply.raised, value |-> NoText]
    ELSE IF reply.status = StatusOK
    THEN IF ~reply.json THEN [raised |-> "JSONDecodeError", value |-> NoText]
         ELSE IF ~reply.has_output THEN [raised |-> "KeyError", value |-> NoText]
         ELSE [raised |-> "", value |-> Text(reply.output)]
    ELSE [raised |-> "", value |-> ErrorString(reply.status, reply.text)]

NoPost == [raised |-> "", status |-> 0, json |-> FALSE,
           has_output |-> FALSE, output |-> "", text |-> ""]

\* uuid.uuid4(): any identifier
SessionIds == {"uuid-1", "uuid-2"}

NoSessionId == ""

\* st.chat_input: "" is None, nothing submitted in this run
Inputs == {"", "question"}

----------------------------------------------------------------------------
(* Table store contents *)

Date(y, m, d) == [y |-> y, m |-> m, d |-> d]

SampleRecords ==
    { [doc_id |-> 1, created_at |-> 39, company_name |-> "A", product |-> "P1",
       decision_date |-> Date(2024, 5, 10)],
      [doc_id |-> 2, created_at |-> 5, company_name |-> "B", product |-> "P1",
       decision_date |-> Date(2024, 6, 20)],
      [doc_id |-> 3, created_at |-> 38, company_name |-> None, product |-> None,
       decision_date |-> Date(2024, 5, 3)],
      [doc_id |-> 4, created_at |-> 39, company_name |-> "B", product |-> "P2",
       decision_date |-> NaT] }

RECURSIVE SeqsUpTo(_, _)
SeqsUpTo(S, n) ==
    IF n = 0 THEN {<<>>}
    ELSE LET shorter == SeqsUpTo(S, n - 1)
         IN  shorter \cup {Append(s, x) : s \in shorter, x \in S}

\* What the table store may hold when it is queried.
TableContents == SeqsUpTo(SampleRecords, MaxRows)

LoadTimes == {40, 41}

\* What the query at line 47 can do: return the table, or raise.
QueryOutcomes ==
    {[raised |-> "", data |-> t] : t \in TableContents}
        \cup {[raised |-> "APIError", data |-> <<>>]}

----------------------------------------------------------------------------
(* main(): one page run, step by step *)

NoFrame == [columns |-> {}, rows |-> <<>>]

TruthyAlways(u) == TRUE

\* Line 235: if user_input
Truthy(u) == u # ""

GeneratesAlways(has) == TRUE

\* Line 211: if "session_id" not in st.session_state
GeneratesSessionId(has) == ~has

Init ==
    /\ pc = "ready"
    /\ runs = 0
    /\ end_date = 0
    /\ start_date = 0
    /\ response = <<>>
    /\ df = NoFrame
    /\ metrics = NoMetrics
    /\ charts = NoCharts
    /\ has_messages = FALSE
    /\ messages = <<>>
    /\ has_session_id = FALSE
    /\ session_id = NoSessionId
    /\ user_input = ""
    /\ error = ""
    /\ queries = 0
    /\ posts = 0
    /\ post = NoPost
    /\ generated = 0
    /\ calls = <<>>

\* Line 185: Dashboard() = create_client, then load_data_from_supabase.
NewDashboard ==
    /\ pc = "ready"
    /\ runs < MaxRuns
    /\ \E now \in LoadTimes, q \in QueryOutcomes :
          /\ end_date' = now
          /\ start_date' = now - DaysBack
          /\ queries' = queries + 1
          /\ IF q.raised # ""
             THEN /\ pc' = "raised"
                  /\ error' = q.raised
                  /\ UNCHANGED <<response, df>>
             ELSE /\ response' = QueryFilter(q.data, now - DaysBack, now)
                  /\ df' = LoadFrame(response')
                  /\ pc' = "constructed"
                  /\ UNCHANGED error
    /\ runs' = runs + 1
    /\ UNCHANGED <<metrics, charts, has_messages, messages, has_session_id,
                   session_id, user_input, posts, post, generated, calls>>

\* Line 188: dashboard.display_metrics()
DisplayMetrics ==
    /\ pc = "constructed"
    /\ LET m == Metrics(df)
       IN  IF m.raised # ""
           THEN /\ pc' = "raised"
                /\ error' = m.raised
                /\ UNCHANGED metrics
           ELSE /\ pc' = "metrics"
                /\ metrics' = m.shown
                /\ UNCHANGED error
    /\ UNCHANGED <<runs, end_date, start_date, response, df, charts,
                   has_messages, messages, has_session_id, session_id,
                   user_input, queries, posts, post, generated, calls>>

\* Line 202: dashboard.display_charts()
DisplayCharts ==
    /\ pc = "metrics"
    /\ IF "company_name" \notin df.columns
       THEN /\ pc' = "raised"
            /\ error' = "KeyError"
            /\ UNCHANGED charts
       ELSE /\ pc' = "charts"
            /\ charts' = Charts(df)
            /\ UNCHANGED error
    /\ UNCHANGED <<runs, end_date, start_date, response, df, metrics,
                   has_messages, messages, has_session_id, session_id,
                   user_input, queries, posts, post, generated, calls>>

\* Lines 209-212: initialise the session state where it is absent.
InitSessionState ==
    /\ pc = "charts"
    /\ has_messages' = TRUE
    /\ messages' = IF has_messages THEN messages ELSE <<>>
    /\ has_session_id' = TRUE
    /\ IF GeneratesSessionId(has_session_id)
       THEN /\ \E fresh \in SessionIds : session_id' = fresh
            /\ generated' = generated + 1
       ELSE UNCHANGED <<session_id, generated>>
    /\ pc' = "chat"
    /\ UNCHANGED <<runs, end_date, start_date, response, df, metrics, charts,
                   user_input, error, queries, posts, post, calls>>

\* Lines 227-239: show the history, read the chat input and, when there is
\* one, append it to the history as the user's message.
ChatInput ==
    /\ pc = "chat"
    /\ \E u \in Inputs :
          /\ user_input' = u
          /\ IF Truthy(u)
             THEN /\ messages' = Append(messages, [role |-> "user", content |-> Text(u)])
                  /\ pc' = "sending"
             ELSE /\ pc' = "done"
                  /\ UNCHANGED messages
    /\ UNCHANGED <<runs, end_date, start_date, response, df, metrics, charts,
                   has_messages, has_session_id, session_id, error, queries,
                   posts, post, generated, calls>>

\* Lines 242-249: call the webhook and append its reply to the history.
LlmResponse ==
    /\ pc = "sending"
    /\ \E p \in PostOutcomes :
          LET r == SendMessageToLlm(p)
          IN  /\ post' = p
              /\ calls' = Append(calls, [sessionId |-> session_id, chatInput |-> user_input])
              /\ posts' = posts + 1
              /\ IF r.raised # ""
                 THEN /\ pc' = "raised"
                      /\ error' = r.raised
                      /\ UNCHANGED messages
                 ELSE /\ messages' = Append(messages, [role |-> "assistant", content |-> r.value])
                      /\ pc' = "done"
                      /\ UNCHANGED error
    /\ UNCHANGED <<runs, end_date, start_date, response, df, metrics, charts,
                   has_messages, has_session_id, session_id, user_input,
                   queries, generated>>

\* The run is over (main returned, or an exception ended it): its locals are
\* gone, the session state stays, and the page may run again.
Rerun ==
    /\ pc \in {"done", "raised"}
    /\ runs < MaxRuns
    /\ pc' = "ready"
    /\ end_date' = 0
    /\ start_date' = 0
    /\ response' = <<>>
    /\ df' = NoFrame
    /\ metrics' = NoMetrics
    /\ charts' = NoCharts
    /\ user_input' = ""
    /\ error' = ""
    /\ queries' = 0
    /\ posts' = 0
    /\ post' = NoPost
    /\ UNCHANGED <<runs, has_messages, messages, has_session_id, session_id,
                   generated, calls>>

Next ==
    \/ NewDashboard
    \/ DisplayMetrics
    \/ DisplayCharts
    \/ InitSessionState
    \/ ChatInput
    \/ LlmResponse
    \/ Rerun

Spec == Init /\ [][Next]_vars

----------------------------------------------------------------------------
(* display_charts on larger tables: a second specification whose initial   *)
(* states are page runs that have loaded a table of up to MaxMonths months *)
(* and shown its metrics.                                                  *)

BigNames == <<"C01", "C02", "C03", "C04", "C05", "C06", "C07", "C08", "C09",
              "A", "C11", "C12", "C13", "C14", "C15", "C16", "C17", "C18">>

\* The i-th record of a large table: its own company, the i-th month from
\* 2023-06 on, creation days that do not follow the table's order.
BigRecord(i) ==
    [doc_id |-> 100 + i, created_at |-> 10 + ((i * 7) % 13),
     company_name |-> BigNames[i], product |-> BigNames[(i % 3) + 1],
     decision_date |-> Date(2023 + ((i + 4) \div 12), ((i + 4) % 12) + 1, 15)]

\* A second record of the i-th company, decided a month later.
SecondRecord(i) ==
    [BigRecord(i) EXCEPT !.doc_id = 200 + i, !.created_at = 30 - (i % 5),
                         !.decision_date = BigRecord(i + 1).decision_date]

RECURSIVE Seconds(_)
Seconds(k) ==
    IF k = 0 THEN <<>>
    ELSE IF k % 3 = 0 THEN Seconds(k - 1) \o <<SecondRecord(k)>>
    ELSE Seconds(k - 1)

BigTable(k, rot, dup, tail) ==
    [i \in 1..k |-> BigRecord(((i + rot - 1) % k) + 1)]
        \o (IF dup THEN Seconds(k) ELSE <<>>) \o tail

BigTables ==
    {BigTable(k, rot, dup, tail) :
        k \in 1..MaxMonths, rot \in 0..2, dup \in BOOLEAN,
        tail \in SeqsUpTo(SampleRecords, 1)}

InitCharts ==
    /\ pc = "metrics"
    /\ runs = 1
    /\ end_date \in LoadTimes
    /\ start_date = end_date - DaysBack
    /\ response \in BigTables
    /\ df = LoadFrame(response)
    /\ metrics = Metrics(df).shown
    /\ charts = NoCharts
    /\ has_messages = FALSE
    /\ messages = <<>>
    /\ has_session_id = FALSE
    /\ session_id = NoSessionId
    /\ user_input = ""
    /\ error = ""
    /\ queries = 1
    /\ posts = 0
    /\ post = NoPost
    /\ generated = 0
    /\ calls = <<>>

NextCharts == DisplayCharts

SpecCharts == InitCharts /\ [][NextCharts]_vars

----------------------------------------------------------------------------
(* Claims *)

LastCallIsThisInput ==
    calls # <<>> /\ calls[Len(calls)].chatInput = user_input

RunEnded == pc \in {"done", "raised"}

Rendered == metrics = Metrics(df).shown /\ charts = Charts(df)

LastMessage == messages[Len(messages)]

RECURSIVE SumCells(_)
SumCells(f) ==
    IF DOMAIN f = {} THEN 0
    ELSE LET c == CHOOSE x \in DOMAIN f : TRUE
         IN  f[c] + SumCells([x \in DOMAIN f \ {c} |-> f[x]])

RecordsInMonth(key) ==
    Cardinality({i \in 1..Len(df.rows) : Month(df.rows[i].decision_date) = key})

\* C1: when the table store returns zero rows, the page run does not raise
\* while the dashboard is built and rendered.
C1_EmptyResultRenders ==
    (queries = 1 /\ df = LoadFrame(<<>>)) => pc # "raised"

\* C2: a failed webhook call (the POST raising, or a 200 reply that is not
\* JSON or has no 'output') does not abort the run: the turn ends with an
\* assistant message appended to the history.
C2_WebhookFailureBecomesReply ==
    posts = 1 =>
        /\ pc = "done"
        /\ messages # <<>>
        /\ LastMessage.role = "assistant"

\* C3: for every webhook response send_message_to_llm returns: the 'output'
\* field when the status is 200, the error string with the status code and the
\* body text otherwise; the caller sees no third outcome.
C3_SendMessageAlwaysReturns ==
    (posts = 1 /\ post.raised = "") =>
        /\ pc = "done"
        /\ messages # <<>>
        /\ LastMessage.role = "assistant"
        /\ LastMessage.content =
               IF post.status = 200 THEN Text(post.output)
               ELSE ErrorString(post.status, post.text)

\* C4: the session id is generated exactly once in a session and never
\* reassigned: every webhook call of the session carries the same sessionId.
C4_SessionIdStable ==
    /\ generated <= 1
    /\ has_session_id <=> generated = 1
    /\ has_session_id => session_id \in SessionIds
    /\ \A i \in 1..Len(calls) : calls[i].sessionId = session_id
    /\ \A i, j \in 1..Len(calls) : calls[i].sessionId = calls[j].sessionId

C4_Witness ==
    /\ Len(calls) >= 2
    /\ runs >= 3
    /\ pc = "chat"

\* C5: in every month row of the cross-tabulation by company the cells sum to
\* the number of records whose decision date falls in that month, which is
\* the month's total in the second subplot.
C5_CrosstabRowSumsEqualMonthTotals ==
    pc \in {"charts", "chat", "sending", "done"} =>
        \A j \in 1..Len(charts.monthly_company) :
            LET row == charts.monthly_company[j]
            IN  /\ SumCells(row.cells) = RecordsInMonth(row.Month)
                /\ \E t \in 1..Len(charts.monthly_total) :
                      /\ charts.monthly_total[t].Month = row.Month
                      /\ charts.monthly_total[t].count = SumCells(row.cells)

\* C8: every record of the loaded frame was created between 30 days before
\* the load time and the load time.
C8_FrameHoldsLast30Days ==
    \A i \in 1..Len(df.rows) :
        start_date <= df.rows[i].Date /\ df.rows[i].Date <= end_date

\* C9: between page runs the chat history alternates user and assistant
\* entries starting with user, and its length is twice the number of chat turns.
C9_HistoryAlternates ==
    (pc = "ready" \/ RunEnded) =>
        /\ Len(messages) = 2 * Len(calls)
        /\ \A i \in 1..Len(messages) :
              messages[i].role = IF i % 2 = 1 THEN "user" ELSE "assistant"

\* C10: every page run makes exactly one table-store query and renders the
\* metrics and charts of that query's result before the chat input is read;
\* it makes at most one webhook call, only for a non-empty input and only
\* after the dashboard has rendered; a new run starts with nothing of the
\* previous one.
C10_OneQueryThenAtMostOnePost ==
    /\ pc = "ready" =>
          /\ queries = 0 /\ posts = 0
          /\ response = <<>> /\ df = NoFrame
          /\ metrics = NoMetrics /\ charts = NoCharts
    /\ pc # "ready" => queries = 1
    /\ (pc \notin {"ready", "raised"} \/ posts = 1) => df = LoadFrame(response)
    /\ posts <= 1
    /\ posts = 1 => user_input # "" /\ LastCallIsThisInput
    /\ (pc \in {"chat", "sending", "done"} \/ user_input # "" \/ posts = 1) => Rendered
    /\ pc = "sending" => posts = 0 /\ user_input # ""
    /\ (pc = "done" /\ user_input # "") => posts = 1

C10_Witness ==
    /\ pc = "done"
    /\ runs >= 2
    /\ posts = 1
    /\ Len(calls) >= 2
    /\ response # <<>>

CompanyColumn == Column(df.rows, "company_name")

ProductColumn == Column(df.rows, "product")

FirstIndex(c, col) == CHOOSE i \in 1..Len(col) : col[i] = c /\ \A j \in 1..(i - 1) : col[j] # c

\* a ranks before b: more records, or as many and seen first in col
RanksBefore(a, b, col) ==
    \/ CountOf(a, col) > CountOf(b, col)
    \/ CountOf(a, col) = CountOf(b, col) /\ FirstIndex(a, col) < FirstIndex(b, col)

\* ranking lists the limit best categories of col, best first, with their counts
IsRanking(ranking, col, limit) ==
    LET cats == Range(col) \ {None}
        listed == {ranking[i].v : i \in 1..Len(ranking)}
    IN  /\ Len(ranking) = Min(limit, Cardinality(cats))
        /\ listed \subseteq cats
        /\ \A i \in 1..Len(ranking) : ranking[i].k = CountOf(ranking[i].v, col)
        /\ \A i, j \in 1..Len(ranking) :
              i < j => RanksBefore(ranking[i].v, ranking[j].v, col)
        /\ \A c \in cats \ listed : \A i \in 1..Len(ranking) :
              RanksBefore(ranking[i].v, c, col)

MonthKeys(table) == {table[i].Month : i \in 1..Len(table)}

====
